---- MODULE Spec2Model ----
(***************************************************************************)
(* Model of the standup parser: the Scanner (tokenizer) and Parser.Parse.  *)
(* A string is a sequence of runes; a rune is a one-character TLA+ string, *)
(* with "NUL" standing for rune(0).                                        *)
(***************************************************************************)
EXTENDS Integers, Sequences, FiniteSets, TLC

\* ------------------------------------------------------------------ bounds
\* The reader's content is a concatenation of at most MaxPieces pieces of
\* Vocabulary.
MaxPieces == 4

\* ------------------------------------------------------------------ tokens
EOF == "EOF"
WS == "WS"
COLON == "COLON"
IDENT == "IDENT"
TODAY == "TODAY"
YESTERDAY == "YESTERDAY"
MEETINGS == "MEETINGS"
BLOCKERS == "BLOCKERS"
LP == "LP"
JIRA == "JIRA"

isKeyword(t) ==
    \/ t = TODAY
    \/ t = YESTERDAY
    \/ t = MEETINGS
    \/ t = BLOCKERS
    \/ t = LP
    \/ t = JIRA

\* ------------------------------------------------------------------ runes
eof == "NUL"

isLineBreak(ch) == ch = "\n"

\* unicode.IsSpace on the runes of the model, which has no U+2002.
isWhitespace(ch) == ch \in {" ", "\t", "\r"} \/ isLineBreak(ch)

LowerLetters ==
    <<"a","b","c","d","e","f","g","h","i","j","k","l","m",
      "n","o","p","q","r","s","t","u","v","w","x","y","z">>

UpperLetters ==
    <<"A","B","C","D","E","F","G","H","I","J","K","L","M",
      "N","O","P","Q","R","S","T","U","V","W","X","Y","Z">>

UpperOf ==
    [c \in {LowerLetters[i] : i \in 1..26} |->
        UpperLetters[CHOOSE i \in 1..26 : LowerLetters[i] = c]]

\* strings.ToUpper
ToUpper(s) == [i \in 1..Len(s) |-> IF s[i] \in DOMAIN UpperOf THEN UpperOf[s[i]] ELSE s[i]]

\* strings.Trim(s, cutset)
RECURSIVE TrimLeftSet(_, _)
TrimLeftSet(s, cutset) ==
    IF s # <<>> /\ Head(s) \in cutset THEN TrimLeftSet(Tail(s), cutset) ELSE s

RECURSIVE TrimRightSet(_, _)
TrimRightSet(s, cutset) ==
    IF s # <<>> /\ s[Len(s)] \in cutset
    THEN TrimRightSet(SubSeq(s, 1, Len(s) - 1), cutset)
    ELSE s

Trim(s, cutset) == TrimRightSet(TrimLeftSet(s, cutset), cutset)

SpaceRunes == {" ", "\t", "\r", "\n"}

\* strings.TrimSpace
TrimSpace(s) == Trim(s, SpaceRunes)

Decoration == {"_", "*", "-", "+", ">"}

\* ---------------------------------------------------------------- scanner
\* The keyword switch of scanIdent, on the normalized word.
KeywordOf(w) ==
    CASE w = <<"T","O","D","A","Y">> -> TODAY
      [] w = <<"Y","E","S","T","E","R","D","A","Y">> -> YESTERDAY
      [] w = <<"W","E","E","K","E","N","D">> -> YESTERDAY
      [] w = <<"W","E","E","K","-","E","N","D">> -> YESTERDAY
      [] w = <<"F","R","I","D","A","Y">> -> YESTERDAY
      [] w = <<"F","R","I","D","A","Y","/","W","E","E","K","E","N","D">> -> YESTERDAY
      [] w = <<"M","E","E","T","I","N","G">> -> MEETINGS
      [] w = <<"M","E","E","T","I","N","G","S">> -> MEETINGS
      [] w = <<"B","L","O","C","K","E","R">> -> BLOCKERS
      [] w = <<"B","L","O","C","K","E","R","S">> -> BLOCKERS
      [] w = <<"T","I","M","E">> -> LP
      [] w = <<"H","O","U","R","S">> -> LP
      [] w = <<"L","P">> -> LP
      [] w = <<"J","I","R","A">> -> JIRA
      [] OTHER -> IDENT

\* Scanner.read at reader offset p (runes already consumed): the rune read.
\* At the end of the reader ReadRune fails and read gives eof, and the offset
\* stays; a NUL rune of the content is consumed and is given as eof too.
read(inp, p) == IF p >= Len(inp) THEN eof ELSE inp[p + 1]

\* scanWhitespace's loop from offset p with buf already holding lit: the
\* offset after the whitespace run (a NUL rune ends the run and is consumed).
RECURSIVE scanWhitespaceEnd(_, _)
scanWhitespaceEnd(inp, p) ==
    IF p >= Len(inp) THEN p
    ELSE IF inp[p + 1] = eof THEN p + 1
    ELSE IF ~isWhitespace(inp[p + 1]) THEN p
    ELSE scanWhitespaceEnd(inp, p + 1)

\* The runes a loop put in buf, from the token's first rune at offset p to
\* the offset q after the token, a consumed NUL not among them.
bufString(inp, p, q) ==
    IF q > p /\ inp[q] = eof THEN SubSeq(inp, p + 1, q - 1) ELSE SubSeq(inp, p + 1, q)

\* scanWhitespace with the offset its loop ends at.
whitespaceToken(inp, p, q) == [tok |-> WS, lit |-> bufString(inp, p, q), pos |-> q]

scanWhitespace(inp, p) == whitespaceToken(inp, p, scanWhitespaceEnd(inp, p + 1))

\* scanIdent's loop: the word ends before a line break or a colon (a NUL
\* rune ends it and is consumed).
RECURSIVE scanIdentEnd(_, _)
scanIdentEnd(inp, p) ==
    IF p >= Len(inp) THEN p
    ELSE IF inp[p + 1] = eof THEN p + 1
    ELSE IF isLineBreak(inp[p + 1]) THEN p
    ELSE IF inp[p + 1] = ":" THEN p
    ELSE scanIdentEnd(inp, p + 1)

Normalize(lit) == TrimSpace(Trim(ToUpper(lit), Decoration))

\* scanIdent's keyword switch on the word in buf.
identToken(lit, q) == [tok |-> KeywordOf(Normalize(lit)), lit |-> lit, pos |-> q]

\* scanIdent with the offset its loop ends at.
identTokenAt(inp, p, q) == identToken(bufString(inp, p, q), q)

scanIdent(inp, p) == identTokenAt(inp, p, scanIdentEnd(inp, p + 1))

\* Scan's dispatch on the rune ch it read at offset p.
scanRune(inp, p, ch) ==
    IF isWhitespace(ch) THEN scanWhitespace(inp, p)
    ELSE IF ch = eof THEN [tok |-> EOF, lit |-> <<>>, pos |-> IF p >= Len(inp) THEN p ELSE p + 1]
    ELSE IF ch = ":" THEN [tok |-> COLON, lit |-> <<ch>>, pos |-> p + 1]
    ELSE scanIdent(inp, p)

\* Scanner.Scan from offset p: the token, its literal and the offset after.
Scan(inp, p) == scanRune(inp, p, read(inp, p))

\* ----------------------------------------------------------------- parser
\* The zero values of the two field types.
ZeroStringField == [Key |-> <<>>, Val |-> <<>>, Valid |-> FALSE]

ZeroBoolField == [Key |-> <<>>, Val |-> FALSE, Lit |-> <<>>, Valid |-> FALSE]

\* &Statement{}
ZeroStatement ==
    [Yesterday |-> ZeroStringField, Today |-> ZeroStringField,
     Meetings |-> ZeroStringField, Blockers |-> ZeroStringField,
     LP |-> ZeroBoolField, Jira |-> ZeroBoolField]

\* strings.Join(values, "")
RECURSIVE Join(_)
Join(vs) == IF vs = <<>> THEN <<>> ELSE Head(vs) \o Join(Tail(vs))

\* strings.Split(s, "\n"): the lines of s, at least one.
RECURSIVE SplitLines(_)
SplitLines(s) ==
    IF \A i \in 1..Len(s) : s[i] # "\n" THEN <<s>>
    ELSE LET k == CHOOSE i \in 1..Len(s) :
                      s[i] = "\n" /\ \A j \in 1..(i - 1) : s[j] # "\n"
         IN <<SubSeq(s, 1, k - 1)>> \o SplitLines(SubSeq(s, k + 1, Len(s)))

\* strings.Join(lines, "\n")
RECURSIVE JoinLines(_)
JoinLines(ls) ==
    IF Len(ls) = 1 THEN ls[1] ELSE ls[1] \o <<"\n">> \o JoinLines(Tail(ls))

\* Mutant: the value is trimmed as a whole only, its lines are left as read.
splitAndTrimSpace_WholeOnly(vs) == TrimSpace(Join(vs))

splitAndTrimSpace(vs) ==
    LET trimmed(lines) == JoinLines([i \in 1..Len(lines) |-> TrimSpace(lines[i])])
    IN trimmed(SplitLines(TrimSpace(Join(vs))))

\* A regexp literal found anywhere in s.
Contains(s, sub) ==
    \E i \in 1..(Len(s) - Len(sub) + 1) : SubSeq(s, i, i + Len(sub) - 1) = sub

\* \s of Go's regexp.
RegexSpace == {"\t", "\n", "\f", "\r", " "}

\* sub at offset i of s, after one or more \s.
AfterSpaces(s, i, sub) ==
    \E m \in 1..(Len(s) - i) :
        /\ \A j \in i..(i + m - 1) : s[j] \in RegexSpace
        /\ i + m + Len(sub) - 1 <= Len(s)
        /\ SubSeq(s, i + m, i + m + Len(sub) - 1) = sub

\* up\s+to\s+date found anywhere in s: "up" at i, "to" at k, \s between.
MatchUpToDate(s) ==
    \E i \in 1..Len(s) : \E k \in (i + 3)..Len(s) :
        /\ SubSeq(s, i, i + 1) = <<"u","p">>
        /\ \A j \in (i + 2)..(k - 1) : s[j] \in RegexSpace
        /\ k + 1 <= Len(s)
        /\ SubSeq(s, k, k + 1) = <<"t","o">>
        /\ AfterSpaces(s, k + 2, <<"d","a","t","e">>)

\* Mutant: the negative pattern compiled with (?i).
negative_IgnoresCase(s) ==
    \/ Contains(s, <<"n","o">>) \/ Contains(s, <<"N","O">>)
    \/ Contains(s, <<"N","o">>) \/ Contains(s, <<"n","O">>)
    \/ Contains(s, <<"o","f","f">>)
    \/ Contains(s, <<"u","p","d","a","t","i","n","g">>)
    \/ Contains(s, <<"n","e","g","a","t","i","v","e">>)

\* Mutant: "no" matched only as a word of its own, between whitespace or the
\* ends of the value.
negative_WordBoundary(s) ==
    \/ \E i \in 1..(Len(s) - 1) :
          /\ SubSeq(s, i, i + 1) = <<"n","o">>
          /\ i = 1 \/ s[i - 1] \in RegexSpace
          /\ i + 1 = Len(s) \/ s[i + 2] \in RegexSpace
    \/ Contains(s, <<"o","f","f">>)
    \/ Contains(s, <<"u","p","d","a","t","i","n","g">>)
    \/ Contains(s, <<"n","e","g","a","t","i","v","e">>)

\* negative.Match: `.*(no|off|updating|negative).*`
negative(s) ==
    \/ Contains(s, <<"n","o">>)
    \/ Contains(s, <<"o","f","f">>)
    \/ Contains(s, <<"u","p","d","a","t","i","n","g">>)
    \/ Contains(s, <<"n","e","g","a","t","i","v","e">>)

\* positive.Match: `.*(done|yes|up\s+to\s+date|ok|1|affirmative|current|updated)`
positive(s) ==
    \/ Contains(s, <<"d","o","n","e">>)
    \/ Contains(s, <<"y","e","s">>)
    \/ MatchUpToDate(s)
    \/ Contains(s, <<"o","k">>)
    \/ Contains(s, <<"1">>)
    \/ Contains(s, <<"a","f","f","i","r","m","a","t","i","v","e">>)
    \/ Contains(s, <<"c","u","r","r","e","n","t">>)
    \/ Contains(s, <<"u","p","d","a","t","e","d">>)

Nil == "nil"

\* Mutant: a negative indicator decides, whatever else matches.
isPositive_NegativeDecides(s) ==
    LET decide(p, n) ==
            IF n THEN [val |-> FALSE, err |-> Nil]
            ELSE IF ~p THEN [val |-> TRUE, err |-> "unclear"]
            ELSE [val |-> TRUE, err |-> Nil]
    IN decide(positive(s), negative(s))

isPositive(s) ==
    LET decide(p, n) ==
            IF p /\ n THEN [val |-> TRUE, err |-> "ambiguous"]
            ELSE IF ~p /\ ~n THEN [val |-> TRUE, err |-> "unclear"]
            ELSE [val |-> p /\ ~n, err |-> Nil]
    IN decide(positive(s), negative(s))

\* ------------------------------------------------------------ Parser state
VARIABLES
    input,      \* the content of the io.Reader given to New
    pos,        \* Scanner.r: runes of input consumed so far
    buf,        \* Parser.buf: tok, lit, n
    pc,         \* position in Parse
    key,        \* Parse's key
    keyLit,     \* Parse's keyLit
    values,     \* Parse's values
    stmt,       \* Parse's stmt
    ret,        \* what Parse returned
    scanned,    \* the (tok, lit) pairs Scanner.Scan has returned, in order
    groups,     \* the (key, keyLit, values) of each group that reached the switch
    iterPos     \* tokens consumed when the current outer iteration began

vars == <<input, pos, buf, pc, key, keyLit, values, stmt, ret, scanned, groups, iterPos>>

\* Mutant: the pushed-back token is returned and left in the buffer.
scan_KeepsBuffer(inp, s) ==
    IF s.buf.n # 0
    THEN [tok |-> s.buf.tok, lit |-> s.buf.lit, s |-> s]
    ELSE LET fresh(t) ==
                 [tok |-> t.tok, lit |-> t.lit,
                  s |-> [pos |-> t.pos,
                         buf |-> [tok |-> t.tok, lit |-> t.lit, n |-> 0],
                         scanned |-> Append(s.scanned, <<t.tok, t.lit>>)]]
         IN fresh(Scan(inp, s.pos))

\* Parser.scan on the parser's scanning state s = [pos, buf, scanned].
scan(inp, s) ==
    IF s.buf.n # 0
    THEN [tok |-> s.buf.tok, lit |-> s.buf.lit,
          s |-> [s EXCEPT !.buf.n = 0]]
    ELSE LET fresh(t) ==
                 [tok |-> t.tok, lit |-> t.lit,
                  s |-> [pos |-> t.pos,
                         buf |-> [tok |-> t.tok, lit |-> t.lit, n |-> 0],
                         scanned |-> Append(s.scanned, <<t.tok, t.lit>>)]]
         IN fresh(Scan(inp, s.pos))

\* Parser.scanIgnoreWhitespace
scanIgnoreWhitespace(inp, s) ==
    LET after(lit, b) == [tok |-> b.tok, lit |-> b.lit, ws |-> lit, s |-> b.s]
        skip(a) == IF a.tok = WS THEN after(a.lit, scan(inp, a.s))
                   ELSE [tok |-> a.tok, lit |-> a.lit, ws |-> <<>>, s |-> a.s]
    IN skip(scan(inp, s))

\* Parser.unscan
unscan(s) == [s EXCEPT !.buf.n = 1]

\* The scanning part of a parser state.
Sc(m) == [pos |-> m.pos, buf |-> m.buf, scanned |-> m.scanned]

WithSc(m, s) == [m EXCEPT !.pos = s.pos, !.buf = s.buf, !.scanned = s.scanned]

\* Tokens taken from the scanner and not pushed back.
Consumed(m) == Len(m.scanned) - m.buf.n

\* The field a text keyword group assigns.
StringFieldOf(k, val) == [Key |-> k, Val |-> val, Valid |-> val # <<>>]

\* The field a flag keyword group assigns.
BoolFieldOf(k, lit) ==
    LET field(r) == [Key |-> k, Val |-> r.val, Lit |-> lit, Valid |-> r.err = Nil]
    IN field(isPositive(lit))

\* Mutant: the key label is the normalized word that the keyword switch saw.
ParseKey_NormalizedKey(inp, m) ==
    LET top(m1, r) ==
            IF r.tok = EOF
            THEN [WithSc(m1, r.s) EXCEPT !.pc = "return"]
            ELSE IF ~isKeyword(r.tok)
            THEN [WithSc(m1, unscan(r.s)) EXCEPT
                     !.key = TODAY, !.keyLit = <<>>, !.pc = "colon"]
            ELSE [WithSc(m1, r.s) EXCEPT
                     !.key = r.tok, !.keyLit = Normalize(r.lit), !.pc = "colon"]
    IN top([m EXCEPT !.iterPos = Consumed(m)], scanIgnoreWhitespace(inp, Sc(m)))

\* Parse, top of the outer loop: read the keyword, or default to TODAY.
ParseKey(inp, m) ==
    LET top(m1, r) ==
            IF r.tok = EOF
            THEN [WithSc(m1, r.s) EXCEPT !.pc = "return"]
            ELSE IF ~isKeyword(r.tok)
            THEN [WithSc(m1, unscan(r.s)) EXCEPT
                     !.key = TODAY, !.keyLit = <<>>, !.pc = "colon"]
            ELSE [WithSc(m1, r.s) EXCEPT
                     !.key = r.tok, !.keyLit = r.lit, !.pc = "colon"]
    IN top([m EXCEPT !.iterPos = Consumed(m)], scanIgnoreWhitespace(inp, Sc(m)))

\* Mutant: the colon after the keyword is pushed back like any other token.
ParseColon_KeepsColon(inp, m) ==
    LET colon(r) == [WithSc(m, unscan(r.s)) EXCEPT !.values = <<>>, !.pc = "value"]
    IN colon(scanIgnoreWhitespace(inp, Sc(m)))

\* Parse: the optional colon after the keyword, then values := []string{}.
ParseColon(inp, m) ==
    LET colon(r) ==
            [WithSc(m, IF r.tok # COLON THEN unscan(r.s) ELSE r.s) EXCEPT
                !.values = <<>>, !.pc = "value"]
    IN colon(scanIgnoreWhitespace(inp, Sc(m)))

\* Mutant: the value loop is left at a colon as at a keyword.
ParseValue_StopsAtColon(inp, m) ==
    LET value(r) ==
            IF isKeyword(r.tok) \/ r.tok = EOF \/ r.tok = COLON
            THEN [WithSc(m, unscan(r.s)) EXCEPT !.pc = "switch"]
            ELSE IF r.tok = IDENT
            THEN [WithSc(m, r.s) EXCEPT !.values = m.values \o <<r.ws, r.lit>>]
            ELSE WithSc(m, r.s)
    IN value(scanIgnoreWhitespace(inp, Sc(m)))

\* Parse: one iteration of the value loop.
ParseValue(inp, m) ==
    LET value(r) ==
            IF isKeyword(r.tok) \/ r.tok = EOF
            THEN [WithSc(m, unscan(r.s)) EXCEPT !.pc = "switch"]
            ELSE IF r.tok = IDENT \/ r.tok = COLON
            THEN [WithSc(m, r.s) EXCEPT !.values = m.values \o <<r.ws, r.lit>>]
            ELSE WithSc(m, r.s)
    IN value(scanIgnoreWhitespace(inp, Sc(m)))

\* Mutant: a group without a value leaves its field as it was.
Assign_KeepsOnEmpty(st, k, kLit, vs) ==
    LET assign(val) ==
            IF val = <<>> THEN st
            ELSE CASE k = TODAY -> [st EXCEPT !.Today = StringFieldOf(kLit, val)]
                   [] k = YESTERDAY -> [st EXCEPT !.Yesterday = StringFieldOf(kLit, val)]
                   [] k = MEETINGS -> [st EXCEPT !.Meetings = StringFieldOf(kLit, val)]
                   [] k = BLOCKERS -> [st EXCEPT !.Blockers = StringFieldOf(kLit, val)]
                   [] k = LP -> [st EXCEPT !.LP = BoolFieldOf(kLit, val)]
                   [] k = JIRA -> [st EXCEPT !.Jira = BoolFieldOf(kLit, val)]
                   [] OTHER -> st
    IN assign(splitAndTrimSpace(vs))

\* Mutant: each group is assigned into a fresh Statement.
Assign_FreshStatement(st, k, kLit, vs) ==
    LET assign(val) ==
            CASE k = TODAY -> [ZeroStatement EXCEPT !.Today = StringFieldOf(kLit, val)]
              [] k = YESTERDAY -> [ZeroStatement EXCEPT !.Yesterday = StringFieldOf(kLit, val)]
              [] k = MEETINGS -> [ZeroStatement EXCEPT !.Meetings = StringFieldOf(kLit, val)]
              [] k = BLOCKERS -> [ZeroStatement EXCEPT !.Blockers = StringFieldOf(kLit, val)]
              [] k = LP -> [ZeroStatement EXCEPT !.LP = BoolFieldOf(kLit, val)]
              [] k = JIRA -> [ZeroStatement EXCEPT !.Jira = BoolFieldOf(kLit, val)]
              [] OTHER -> st
    IN assign(splitAndTrimSpace(vs))

\* The switch on key: the statement after the group's assignment.
Assign(st, k, kLit, vs) ==
    LET assign(val) ==
            CASE k = TODAY -> [st EXCEPT !.Today = StringFieldOf(kLit, val)]
              [] k = YESTERDAY -> [st EXCEPT !.Yesterday = StringFieldOf(kLit, val)]
              [] k = MEETINGS -> [st EXCEPT !.Meetings = StringFieldOf(kLit, val)]
              [] k = BLOCKERS -> [st EXCEPT !.Blockers = StringFieldOf(kLit, val)]
              [] k = LP -> [st EXCEPT !.LP = BoolFieldOf(kLit, val)]
              [] k = JIRA -> [st EXCEPT !.Jira = BoolFieldOf(kLit, val)]
              [] OTHER -> st
    IN assign(splitAndTrimSpace(vs))

\* Parse: the switch, then back to the top of the outer loop.
ParseSwitch(inp, m) ==
    [m EXCEPT !.stmt = Assign(m.stmt, m.key, m.keyLit, m.values),
              !.groups = Append(m.groups,
                  [key |-> m.key, keyLit |-> m.keyLit, values |-> m.values]),
              !.pc = "key"]

\* Mutant: a failed LP classification is returned as Parse's error.
Returned_FlagError(st) ==
    [nilStmt |-> FALSE, stmt |-> st,
     err |-> IF st.LP.Key # <<>> /\ ~st.LP.Valid THEN "unclear" ELSE Nil]

\* return stmt, nil: the pointer returned, what it points to, and the error.
Returned(st) == [nilStmt |-> FALSE, stmt |-> st, err |-> Nil]

ParseReturn(inp, m) == [m EXCEPT !.ret = Returned(m.stmt), !.pc = "done"]

\* Before Parse has returned.
NotReturned == [nilStmt |-> TRUE, stmt |-> ZeroStatement, err |-> "none"]

\* New(r), and Parse before its loop.
NewParser ==
    [pos |-> 0, buf |-> [tok |-> EOF, lit |-> <<>>, n |-> 0], scanned |-> <<>>,
     pc |-> "key", key |-> EOF, keyLit |-> <<>>, values |-> <<>>,
     stmt |-> ZeroStatement, ret |-> NotReturned, groups |-> <<>>, iterPos |-> 0]

\* One step of Parse from parser state m.
Step(inp, m) ==
    CASE m.pc = "key" -> ParseKey(inp, m)
      [] m.pc = "colon" -> ParseColon(inp, m)
      [] m.pc = "value" -> ParseValue(inp, m)
      [] m.pc = "switch" -> ParseSwitch(inp, m)
      [] m.pc = "return" -> ParseReturn(inp, m)
      [] OTHER -> m

\* New(strings.NewReader(inp)).Parse(), run to its return.
RECURSIVE RunFrom(_, _)
RunFrom(inp, m) == IF m.pc = "done" THEN m ELSE RunFrom(inp, Step(inp, m))

Parse(inp) == RunFrom(inp, NewParser)

\* ------------------------------------------------------------------ inputs
\* Words of the inputs.
kLP == <<"L","P">>
kJira == <<"J","i","r","a">>
kToday == <<"t","o","d","a","y">>
kMeetings == <<"m","e","e","t","i","n","g","s">>
kDashMeetings == <<"-"," ">> \o kMeetings
wNo == <<"n","o">>
wYes == <<"y","e","s">>
wNO == <<"N","O">>
wX == <<"x">>
wHello == <<"h","e","l","l","o">>
wNotYet == <<"n","o","t"," ","y","e","t">>
wUpToDate == <<"u","p"," ","t","o"," ","d","a","t","e">>

Vocabulary ==
    {kLP, kToday, kMeetings,
     <<":">>, <<"\n">>, <<" ">>, <<"-">>, <<eof>>,
     wNo, wYes, wX}

PieceSeqs == UNION {[1..n -> Vocabulary] : n \in 0..MaxPieces}

\* Every concatenation of at most MaxPieces pieces.
FreeInputs == {Join(ps) : ps \in PieceSeqs}

\* A line of a standup: a label or none, a separator, a value.
LineKeys == {kLP, kJira, kToday, kMeetings, kDashMeetings, <<>>}

LineSeps == {<<":">>, <<":"," ">>, <<"\n">>}

LineValues == {<<>>, wNo, wYes, wNO, wNotYet, wUpToDate}

Lines == {k \o sep \o v : k \in LineKeys, sep \in LineSeps, v \in LineValues}

\* Standups of one and of two lines.
Documents == Lines \cup {a \o <<"\n">> \o b : a \in Lines, b \in Lines}

\* Standups of the repository's tests and documentation.
exDashMeetings == <<"-"," ","m","e","e","t","i","n","g","s",":"," ","h","e","l","l","o">>

exFriday == <<"F","r","i","d","a","y",":"," ","x">>

exHours == <<"T","o","d","a","y",":"," ","x","\n","H","o","u","r","s"," ","a","r","e"," ","u","p"," ","t","o"," ","d","a","t","e">>

exCoomo == <<"T","o","d","a","y",":"," ","M","e","e","t","i","n","g","s"," ","&"," ","C","o","o","m","o">>

Examples == {exDashMeetings, exFriday, exHours, exCoomo}

Inputs == FreeInputs \cup Documents \cup Examples

\* ----------------------------------------------------------- specification
Cur ==
    [pos |-> pos, buf |-> buf, scanned |-> scanned, pc |-> pc, key |-> key,
     keyLit |-> keyLit, values |-> values, stmt |-> stmt, ret |-> ret,
     groups |-> groups, iterPos |-> iterPos]

Becomes(m) ==
    /\ pos' = m.pos
    /\ buf' = m.buf
    /\ scanned' = m.scanned
    /\ pc' = m.pc
    /\ key' = m.key
    /\ keyLit' = m.keyLit
    /\ values' = m.values
    /\ stmt' = m.stmt
    /\ ret' = m.ret
    /\ groups' = m.groups
    /\ iterPos' = m.iterPos
    /\ UNCHANGED input

Init ==
    /\ input \in Inputs
    /\ pos = NewParser.pos
    /\ buf = NewParser.buf
    /\ scanned = NewParser.scanned
    /\ pc = NewParser.pc
    /\ key = NewParser.key
    /\ keyLit = NewParser.keyLit
    /\ values = NewParser.values
    /\ stmt = NewParser.stmt
    /\ ret = NewParser.ret
    /\ groups = NewParser.groups
    /\ iterPos = NewParser.iterPos

DoKey == pc = "key" /\ Becomes(ParseKey(input, Cur))

DoColon == pc = "colon" /\ Becomes(ParseColon(input, Cur))

DoValue == pc = "value" /\ Becomes(ParseValue(input, Cur))

DoSwitch == pc = "switch" /\ Becomes(ParseSwitch(input, Cur))

DoReturn == pc = "return" /\ Becomes(ParseReturn(input, Cur))

Next == DoKey \/ DoColon \/ DoValue \/ DoSwitch \/ DoReturn

Spec == Init /\ [][Next]_vars

\* ------------------------------------------------------------------ claims
Kinds == {TODAY, YESTERDAY, MEETINGS, BLOCKERS, LP, JIRA}

\* The Statement field a keyword kind is assigned to.
SlotOf(k) ==
    CASE k = TODAY -> "Today"
      [] k = YESTERDAY -> "Yesterday"
      [] k = MEETINGS -> "Meetings"
      [] k = BLOCKERS -> "Blockers"
      [] k = LP -> "LP"
      [] k = JIRA -> "Jira"

\* The literals Scanner.Scan has returned, concatenated in order.
ScannedLits == Join([i \in 1..Len(scanned) |-> scanned[i][2]])

\* Scanner.Scan has returned EOF.
EofSeen == scanned # <<>> /\ scanned[Len(scanned)][1] = EOF

\* C1: once Scan has returned EOF, the literals it returned, concatenated in
\* order, are the input.
C1_RoundTrip == EofSeen => ScannedLits = input

\* What is left to do: the runes not yet read (and the EOF token still to
\* come), the pushed-back token, and the position in the loop.
PcRank ==
    CASE pc = "colon" -> 3
      [] pc = "value" -> 2
      [] pc = "switch" -> 1
      [] pc = "key" -> 0
      [] pc = "return" -> 1
      [] pc = "done" -> 0

Rank ==
    8 * (2 * (IF EofSeen THEN 0 ELSE Len(input) - pos + 1) + buf.n) + PcRank

\* C2: Parse terminates: every Scan call (the next one, and the one after a
\* whitespace token) reads at least one rune or returns EOF, every step of Parse lowers Rank (a natural number), an iteration of
\* the value loop that does not leave the loop takes a token for good, and
\* so does every iteration of the outer loop that reaches the switch.
C2_Terminates ==
    [][/\ LET t == Scan(input, pos)
               u == Scan(input, t.pos)
           IN /\ t.tok = EOF \/ t.pos > pos
              /\ t.tok = WS => (u.tok = EOF \/ u.pos > t.pos)
       /\ Rank' < Rank
       /\ Rank' >= 0
       /\ (pc = "value" /\ pc' = "value")
             => Len(scanned') - buf'.n > Len(scanned) - buf.n
       /\ pc' = "switch" => Len(scanned') - buf'.n > iterPos']_vars

\* Parse returned after two or more groups, the later ones begun by a
\* keyword token that had been pushed back.
C2_Witness == pc = "done" /\ Len(groups) >= 2

\* C3: Parse returns a non-nil Statement and a nil error, also when a flag's
\* classification was ambiguous or unclear.
C3_NeverFails ==
    pc = "done" => (~ret.nilStmt /\ ret.stmt = stmt /\ ret.err = Nil)

\* Parse returned with an LP group whose classification failed.
C3_Witness ==
    /\ pc = "done"
    /\ \E i \in 1..Len(groups) : groups[i].key = LP
    /\ ~ret.stmt.LP.Valid

\* The groups of kind k that reached the switch, by index.
GroupsOf(k) == {i \in 1..Len(groups) : groups[i].key = k}

LastGroupOf(k) == groups[CHOOSE i \in GroupsOf(k) : \A j \in GroupsOf(k) : j <= i]

\* The tokens taken from the scanner and not pushed back.
Taken == SubSeq(scanned, 1, Len(scanned) - buf.n)

\* The input begins with a keyword directly followed by a colon.
KeywordThenColon ==
    /\ Len(scanned) >= 2
    /\ isKeyword(scanned[1][1])
    /\ scanned[2][1] = COLON
    /\ input[Len(scanned[1][2]) + 1] = ":"

\* The input without the colon that follows its leading keyword.
DropColon ==
    LET n == Len(scanned[1][2]) IN
    SubSeq(input, 1, n) \o SubSeq(input, n + 2, Len(input))

RuneAfterColon ==
    LET n == Len(scanned[1][2]) IN
    IF n + 2 <= Len(input) THEN input[n + 2] ELSE eof

\* C4 as stated: a plain keyword, a colon, a space and a word, and the same
\* input without the colon, give the same value in the keyword's field, under
\* a key that is the same keyword.
C4_ColonOptional ==
    (/\ pc = "done"
     /\ KeywordThenColon
     /\ Normalize(scanned[1][2]) = ToUpper(scanned[1][2])
     /\ RuneAfterColon = " "
     /\ scanned[4][1] = IDENT) =>
        LET f == SlotOf(scanned[1][1])
            other == Parse(DropColon).ret.stmt
        IN /\ Normalize(other[f].Key) = Normalize(stmt[f].Key)
           /\ IF f \in {"LP", "Jira"}
              THEN other[f].Lit = stmt[f].Lit
              ELSE other[f].Val = stmt[f].Val

\* C4 amended: when a line break directly follows the colon and the token
\* after that whitespace is not a second colon, the input with the colon
\* removed gives the same Statement, and the colon is in neither key nor
\* value.
C4_ColonOrLineBreak ==
    (/\ pc = "done"
     /\ KeywordThenColon
     /\ RuneAfterColon = "\n"
     /\ scanned[4][1] # COLON) =>
        /\ Parse(DropColon).ret = ret
        /\ \A i \in 1..Len(groups[1].keyLit) : groups[1].keyLit[i] # ":"
        /\ groups[1].keyLit = scanned[1][2]

\* "meetings:\nx" was parsed: Meetings has the key "meetings" and the value "x".
C4_Witness ==
    /\ pc = "done"
    /\ KeywordThenColon
    /\ RuneAfterColon = "\n"
    /\ scanned[4][1] # COLON
    /\ stmt.Meetings = [Key |-> kMeetings, Val |-> wX, Valid |-> TRUE]

\* The first token that is not whitespace is neither a keyword nor EOF.
FirstNonWs == CHOOSE i \in 1..Len(scanned) :
                  scanned[i][1] # WS /\ \A j \in 1..(i - 1) : scanned[j][1] = WS

DefaultText ==
    /\ \E i \in 1..Len(scanned) : scanned[i][1] # WS
    /\ ~isKeyword(scanned[FirstNonWs][1])
    /\ scanned[FirstNonWs][1] # EOF

\* The literals of the tokens before the first keyword or EOF token.
LeadingText ==
    LET stop == CHOOSE i \in 1..Len(scanned) :
                    /\ isKeyword(scanned[i][1]) \/ scanned[i][1] = EOF
                    /\ \A j \in 1..(i - 1) :
                          ~isKeyword(scanned[j][1]) /\ scanned[j][1] # EOF
    IN Join([i \in 1..(stop - 1) |-> scanned[i][2]])

\* C5 as stated: un-keyed leading text, normalized, is the Today field with an
\* empty key, and the other fields are zero after this first group.
C5_DefaultToday ==
    (pc = "key" /\ Len(groups) = 1 /\ DefaultText) =>
        /\ stmt.Today = StringFieldOf(<<>>, splitAndTrimSpace(<<LeadingText>>))
        /\ \A f \in {"Yesterday", "Meetings", "Blockers"} : stmt[f] = ZeroStringField
        /\ \A f \in {"LP", "Jira"} : stmt[f] = ZeroBoolField

\* C6: between groups and at return, the field of every kind that had a group
\* holds the key, value and validity of the last group of that kind and
\* nothing of an earlier one; its key is the literal of the last token of
\* that kind taken from the scanner.
C6_LastWins ==
    pc \in {"key", "return", "done"} =>
        \A k \in Kinds : GroupsOf(k) # {} =>
            LET g == LastGroupOf(k)
                v == splitAndTrimSpace(g.values)
                f == stmt[SlotOf(k)]
                toks == {i \in 1..Len(Taken) : Taken[i][1] = k}
            IN /\ f.Key = g.keyLit
               /\ IF k \in {LP, JIRA} THEN f.Lit = v
                  ELSE f.Val = v /\ f.Valid = (v # <<>>)
               /\ toks # {} =>
                     f.Key = Taken[CHOOSE i \in toks : \A j \in toks : j <= i][2]

\* Two groups of one kind, the first with a value and the last without: the
\* field ends with the last key, no value and Valid = false.
C6_Witness ==
    /\ pc = "done"
    /\ Len(groups) = 2
    /\ groups[1].key = MEETINGS
    /\ groups[2].key = MEETINGS
    /\ splitAndTrimSpace(groups[1].values) # <<>>
    /\ stmt.Meetings = [Key |-> kMeetings, Val |-> <<>>, Valid |-> FALSE]

SlotNames == {"Yesterday", "Today", "Meetings", "Blockers", "LP", "Jira"}

ZeroOf(f) == IF f \in {"LP", "Jira"} THEN ZeroBoolField ELSE ZeroStringField

\* C7: the switch writes the field of the group's kind only, no other step
\* writes the Statement, and at return a field whose kind had no token (for
\* Today: and there was no un-keyed leading text) is zero.
C7_Frame ==
    [][/\ pc = "switch" =>
             \A f \in SlotNames \ {SlotOf(key)} : stmt'[f] = stmt[f]
       /\ pc # "switch" => stmt' = stmt
       /\ pc' = "done" =>
             \A k \in Kinds :
                 (/\ \A i \in 1..Len(scanned') : scanned'[i][1] # k
                  /\ k = TODAY => ~DefaultText') =>
                     /\ stmt'[SlotOf(k)] = ZeroOf(SlotOf(k))
                     /\ ret'.stmt[SlotOf(k)] = ZeroOf(SlotOf(k))]_vars

\* Parse returned with LP and Meetings written and the other four fields zero.
C7_Witness ==
    /\ pc = "done"
    /\ stmt.LP.Valid
    /\ stmt.Meetings.Valid
    /\ stmt.Today = ZeroStringField
    /\ stmt.Yesterday = ZeroStringField
    /\ stmt.Blockers = ZeroStringField
    /\ stmt.Jira = ZeroBoolField

FlagKinds == {LP, JIRA}

\* C8: a flag field that a group has written holds the group's normalized
\* value as Lit, and Val and Valid by the four-way policy.
C8_FourWay ==
    \A k \in FlagKinds : GroupsOf(k) # {} =>
        LET f == stmt[SlotOf(k)]
            p == positive(f.Lit)
            n == negative(f.Lit)
        IN /\ f.Lit = splitAndTrimSpace(LastGroupOf(k).values)
           /\ (p /\ ~n) => (f.Val /\ f.Valid)
           /\ (n /\ ~p) => (~f.Val /\ f.Valid)
           /\ (p /\ n) => (f.Val /\ ~f.Valid)
           /\ (~p /\ ~n) => (f.Val /\ ~f.Valid)

\* "LP: no" and "Jira: up to date" in one standup: false and true, both valid.
C8_Witness ==
    /\ stmt.LP.Lit = wNo /\ ~stmt.LP.Val /\ stmt.LP.Valid
    /\ stmt.Jira.Lit = wUpToDate /\ stmt.Jira.Val /\ stmt.Jira.Valid

LowerOf ==
    [c \in {UpperLetters[i] : i \in 1..26} |->
        LowerLetters[CHOOSE i \in 1..26 : UpperLetters[i] = c]]

ToLower(s) ==
    [i \in 1..Len(s) |-> IF s[i] \in DOMAIN LowerOf THEN LowerOf[s[i]] ELSE s[i]]

\* s with every upper-case letter replaced by a rune of no indicator.
MaskUpper(s) ==
    [i \in 1..Len(s) |-> IF s[i] \in DOMAIN LowerOf THEN "#" ELSE s[i]]

\* C9 as stated: a flag value and the same value in lower case receive the
\* same Val and Valid.
C9_CaseInsensitive ==
    \A k \in FlagKinds : GroupsOf(k) # {} =>
        LET f == stmt[SlotOf(k)]
            r == isPositive(ToLower(f.Lit))
        IN f.Val = r.val /\ f.Valid = (r.err = Nil)

\* C9 amended: the indicators match in lower case only: an upper-case letter
\* of a flag value counts as a rune that belongs to no indicator.
C9_CaseSensitive ==
    \A k \in FlagKinds : GroupsOf(k) # {} =>
        LET f == stmt[SlotOf(k)]
            r == isPositive(MaskUpper(f.Lit))
        IN f.Val = r.val /\ f.Valid = (r.err = Nil)

\* "NO" as a flag value: unclear, where "no" is false and valid.
C9_Witness ==
    /\ GroupsOf(LP) # {}
    /\ stmt.LP.Lit = wNO
    /\ stmt.LP.Val
    /\ ~stmt.LP.Valid
    /\ ~isPositive(ToLower(stmt.LP.Lit)).val

\* C10: a flag value with "no" anywhere in it and no positive indicator is
\* false and valid.
C10_BareSubstring ==
    \A k \in FlagKinds : GroupsOf(k) # {} =>
        LET f == stmt[SlotOf(k)] IN
        (Contains(f.Lit, wNo) /\ ~positive(f.Lit)) => (~f.Val /\ f.Valid)

\* "Jira: not yet"
C10_Witness ==
    stmt.Jira = [Key |-> kJira, Val |-> FALSE, Lit |-> wNotYet, Valid |-> TRUE]

\* The runes of the input that a token's literal lit was read from, when the
\* scanner stands at offset q after it: the literal ends at q, or one rune
\* before q when a NUL rune ended the token.
SpanBefore(lit, q) ==
    \/ q >= Len(lit) /\ SubSeq(input, q - Len(lit) + 1, q) = lit
    \/ /\ q >= Len(lit) + 1
       /\ input[q] = eof
       /\ SubSeq(input, q - Len(lit), q - 1) = lit

\* C11: when the outer loop takes a keyword token, the key label is that
\* token's literal, which is the run of input runes it was read from and
\* which the keyword switch classifies as the group's kind; the label is
\* kept to the switch, and the switch stores it as the Key of the field.
C11_KeyAsWritten ==
    [][/\ (pc = "key" /\ pc' = "colon" /\ buf'.n = 0) =>
             /\ isKeyword(key')
             /\ keyLit' = scanned'[Len(scanned')][2]
             /\ key' = scanned'[Len(scanned')][1]
             /\ KeywordOf(Normalize(keyLit')) = key'
             /\ SpanBefore(keyLit', pos')
       /\ pc \in {"colon", "value"} => (keyLit' = keyLit /\ key' = key)
       /\ pc = "switch" => stmt'[SlotOf(key)].Key = keyLit]_vars

\* "- meetings: hello" was parsed: the key keeps the decoration and the lower
\* case, and is not the word the keyword switch compared.
C11_Witness ==
    /\ pc = "done"
    /\ input = exDashMeetings
    /\ stmt.Meetings = [Key |-> kDashMeetings, Val |-> wHello, Valid |-> TRUE]
    /\ Normalize(stmt.Meetings.Key) = ToUpper(kMeetings)

\* The tokens the current outer iteration has taken for good.
IterTokens == SubSeq(scanned, iterPos + 1, Len(scanned) - buf.n)

\* toks without a leading whitespace token.
DropWs(toks) == IF toks # <<>> /\ toks[1][1] = WS THEN Tail(toks) ELSE toks

\* toks without a leading token of kind k.
DropTok(toks, k) == IF toks # <<>> /\ toks[1][1] = k THEN Tail(toks) ELSE toks

\* toks without a leading keyword token.
DropKeyword(toks) == IF toks # <<>> /\ isKeyword(toks[1][1]) THEN Tail(toks) ELSE toks

\* The tokens of the iteration that follow its keyword (if it has one) and at
\* most one colon, whitespace before either left out.
ValueTokens == DropTok(DropWs(DropKeyword(DropWs(IterTokens))), COLON)

\* The literals of toks, concatenated.
LitsOf(toks) == Join([i \in 1..Len(toks) |-> toks[i][2]])

\* C12 as stated: when a group reaches the switch and after it, no token of
\* its value is a keyword or EOF, the token that follows is a keyword or the
\* EOF of the end of the input, and the collected value, and then the Val or Lit of the field, is the
\* normalization of the concatenated literals of the value's tokens.
C12_ValueOfGroup ==
    /\ pc = "switch" =>
          /\ \A i \in 1..Len(ValueTokens) :
                ~isKeyword(ValueTokens[i][1]) /\ ValueTokens[i][1] # EOF
          /\ buf.n = 1 /\ (isKeyword(buf.tok) \/ buf.tok = EOF)
          /\ buf.tok = EOF => pos = Len(input)
          /\ splitAndTrimSpace(values) = splitAndTrimSpace(<<LitsOf(ValueTokens)>>)
    /\ (pc = "key" /\ groups # <<>>) =>
          LET f == stmt[SlotOf(groups[Len(groups)].key)]
              v == splitAndTrimSpace(<<LitsOf(ValueTokens)>>)
          IN IF groups[Len(groups)].key \in {LP, JIRA} THEN f.Lit = v ELSE f.Val = v

\* The token Scanner.Scan returned last.
LastScanned == scanned[Len(scanned)]

\* The runes that end a word: the scanner stands at the end of the input or
\* before a line break or a colon.
AtWordEnd == pos = Len(input) \/ input[pos + 1] \in {"\n", ":"}

wHoursLine == <<"x","\n","H","o","u","r","s"," ","a","r","e"," ","u","p"," ","t","o"," ","d","a","t","e">>

wCoomo == <<"M","e","e","t","i","n","g","s"," ","&"," ","C","o","o","m","o">>

\* C13 as stated: a keyword token is a whole word: its literal is the runes
\* of the input up to where the scanner stands, that place is the end of the
\* input, a line break or a colon, and the literal normalizes to an entry of
\* the keyword table; "Hours are up to date" on the line after a Today value
\* stays in that value and LP stays unset, and "Today: Meetings & Coomo" sets
\* no Meetings field.
C13_WholeWord ==
    /\ (scanned # <<>> /\ isKeyword(LastScanned[1])) =>
          /\ pos >= Len(LastScanned[2])
          /\ SubSeq(input, pos - Len(LastScanned[2]) + 1, pos) = LastScanned[2]
          /\ AtWordEnd
          /\ KeywordOf(Normalize(LastScanned[2])) = LastScanned[1]
    /\ (pc = "done" /\ input = exHours) =>
          /\ stmt.Today = [Key |-> <<"T","o","d","a","y">>, Val |-> wHoursLine, Valid |-> TRUE]
          /\ stmt.LP = ZeroBoolField
          /\ Len(groups) = 1
    /\ (pc = "done" /\ input = exCoomo) =>
          /\ stmt.Today = [Key |-> <<"T","o","d","a","y">>, Val |-> wCoomo, Valid |-> TRUE]
          /\ stmt.Meetings = ZeroStringField
          /\ Len(groups) = 1

TextSlots == {"Yesterday", "Today", "Meetings", "Blockers"}

\* s neither begins nor ends with a whitespace rune.
NoOuterSpace(s) ==
    s = <<>> \/ (~isWhitespace(s[1]) /\ ~isWhitespace(s[Len(s)]))

\* A text field as C14 describes it.
NormalizedField(f) ==
    /\ f.Valid = (f.Val # <<>>)
    /\ NoOuterSpace(f.Val)
    /\ \A i \in 1..Len(SplitLines(f.Val)) : NoOuterSpace(SplitLines(f.Val)[i])

\* C14: each of the four text fields of the Statement, while Parse runs and
\* in what it returns, has Valid = (Val is not empty) and a Val with no
\* whitespace at either end of the whole or of any of its lines.
C14_TextNormalized ==
    /\ \A f \in TextSlots : NormalizedField(stmt[f])
    /\ pc = "done" => \A f \in TextSlots : NormalizedField(ret.stmt[f])

\* Parse returned "x\nx" as a valid Today for un-keyed text read as "x \nx".
C14_Witness ==
    /\ pc = "done"
    /\ Len(groups) = 1
    /\ Join(groups[1].values) = <<"x"," ","\n","x">>
    /\ ret.stmt.Today = [Key |-> <<>>, Val |-> <<"x","\n","x">>, Valid |-> TRUE]

\* C15 as stated: when the first token of the input that is not whitespace
\* is no keyword, the input and "today:" followed by the input give
\* Statements that are equal in every field but Today.Key, which is "" against
\* "today" unless a later today keyword of the input has set it.
C15_DefaultAsToday ==
    (pc = "done" /\ ~isKeyword(scanned[FirstNonWs][1])) =>
        LET other == Parse(kToday \o <<":">> \o input).ret.stmt IN
        /\ [other EXCEPT !.Today.Key = <<>>] = [ret.stmt EXCEPT !.Today.Key = <<>>]
        /\ (\A i \in 1..Len(scanned) : scanned[i][1] # TODAY) =>
              (ret.stmt.Today.Key = <<>> /\ other.Today.Key = kToday)

\* C16 as stated: Scan never returns two WS tokens in a row, the token that
\* scanIgnoreWhitespace returned last (the one the buffer keeps) is no WS
\* token, and no WS token is pushed back.
C16_NoAdjacentWs ==
    /\ \A i \in 1..(Len(scanned) - 1) :
          ~(scanned[i][1] = WS /\ scanned[i + 1][1] = WS)
    /\ scanned # <<>> => buf.tok # WS
    /\ buf.n = 1 => buf.tok # WS

\* C17: the outer loop takes its "not a keyword" branch (the one that ends
\* with the token pushed back) only in its first iteration, before any token
\* was read; every later iteration begins with a keyword or EOF token in the
\* pushback buffer, and every group after the first has a keyword's literal
\* as its key label.
C17_DefaultOnlyFirst ==
    [][/\ (pc = "key" /\ pc' = "colon" /\ buf'.n = 1) =>
             /\ groups = <<>>
             /\ scanned = <<>>
             /\ key' = TODAY
             /\ keyLit' = <<>>
       /\ (pc = "key" /\ groups # <<>>) =>
             (buf.n = 1 /\ (isKeyword(buf.tok) \/ buf.tok = EOF))
       /\ \A i \in 2..Len(groups') :
             /\ groups'[i].keyLit # <<>>
             /\ KeywordOf(Normalize(groups'[i].keyLit)) = groups'[i].key]_vars

\* Parse returned after a default group with un-keyed text, followed by an
\* LP group that a keyword began.
C17_Witness ==
    /\ pc = "done"
    /\ Len(groups) = 2
    /\ groups[1].keyLit = <<>>
    /\ groups[1].key = TODAY
    /\ Join(groups[1].values) = wX
    /\ groups[2].key = LP
    /\ groups[2].keyLit = kLP

\* The end of the word of the input that holds offset p: the next line
\* break or colon, or the end of the input.
RECURSIVE WholeWordEnd(_)
WholeWordEnd(p) ==
    IF p >= Len(input) THEN p
    ELSE IF input[p + 1] \in {"\n", ":"} THEN p
    ELSE WholeWordEnd(p + 1)

\* A word of the input begins at offset q, at the start of the input or right
\* after a line break or a colon.
WordStartsAt(q) ==
    /\ q < Len(input)
    /\ ~isWhitespace(input[q + 1])
    /\ input[q + 1] # ":"
    /\ q = 0 \/ input[q] \in {"\n", ":"}

\* A keyword of kind k is written in the input as a whole word.
Appears(k) ==
    \E q \in 0..(Len(input) - 1) :
        /\ WordStartsAt(q)
        /\ KeywordOf(Normalize(SubSeq(input, q + 1, WholeWordEnd(q + 1)))) = k

\* C18 as stated: in the returned Statement a flag field has Val = false and
\* Valid = false only if no keyword of its kind is written in the input, and
\* has them if Scan returned no token of its kind; when a token of its kind
\* was taken, Valid = false implies Val = true and Val = false implies Valid
\* = true.
C18_FlagBestGuess ==
    pc = "done" =>
        \A k \in FlagKinds :
            LET f == ret.stmt[SlotOf(k)] IN
            /\ (~f.Val /\ ~f.Valid) => ~Appears(k)
            /\ (\A i \in 1..Len(scanned) : scanned[i][1] # k) => (~f.Val /\ ~f.Valid)
            /\ (\E i \in 1..Len(scanned) : scanned[i][1] = k) =>
                  /\ ~f.Valid => f.Val
                  /\ ~f.Val => f.Valid

\* s holds whitespace runes only.
WsOnly(s) == \A i \in 1..Len(s) : isWhitespace(s[i])

\* inner is whole with whitespace taken from its two ends only.
EndsTrimmed(whole, inner) ==
    \E i \in 0..Len(whole) : \E j \in i..Len(whole) :
        /\ SubSeq(whole, i + 1, j) = inner
        /\ WsOnly(SubSeq(whole, 1, i))
        /\ WsOnly(SubSeq(whole, j + 1, Len(whole)))

\* C19 as stated: with a token pushed back, it is the token the most recent
\* scan returned; the next scan returns it and leaves the scanner where it
\* is, and the next scanIgnoreWhitespace returns it with an empty ws; the
\* value a group has collected when it reaches the switch is the literals of
\* its tokens with whitespace missing at the two ends only.
C19_Pushback ==
    /\ buf.n \in {0, 1}
    /\ buf.n = 1 =>
          /\ <<buf.tok, buf.lit>> = LastScanned
          /\ LET s == [pos |-> pos, buf |-> buf, scanned |-> scanned]
                 a == scan(input, s)
                 r == scanIgnoreWhitespace(input, s)
             IN /\ a.tok = buf.tok /\ a.lit = buf.lit
                /\ a.s.pos = pos /\ a.s.scanned = scanned /\ a.s.buf.n = 0
                /\ r.tok = buf.tok /\ r.lit = buf.lit /\ r.ws = <<>>
                /\ r.s.pos = pos /\ r.s.scanned = scanned
    /\ pc = "switch" => EndsTrimmed(LitsOf(ValueTokens), Join(values))

====
